---------------------------- MODULE Spec2Model ----------------------------
(***************************************************************************)
(* A model of the three command-line utilities of the repository:          *)
(*   deepSeek.py    news -> summaries -> console table                     *)
(*   newstopdf.py   news -> summaries -> PDF, with an HTML fallback        *)
(*   image-gen.py   prompt + ratio -> one image file                       *)
(*                                                                         *)
(* Text that the code transforms (strip, int, slicing, base64) is a        *)
(* sequence of characters, each character a one-character string.  A       *)
(* literal the code only ever copies as a whole (an f-string's fixed part) *)
(* is one element of such a sequence.  Text the code only copies (a title, *)
(* a url) is a plain string.                                               *)
(***************************************************************************)
EXTENDS Integers, Sequences, FiniteSets, TLC

(***************************************************************************)
(* Bounds of the model.                                                    *)
(***************************************************************************)
MaxArticles == 2
MaxAnswer == 2
MaxRecords == 2
MaxChoice == 2
MaxPayload == 4

(***************************************************************************)
(* Python text helpers.                                                    *)
(***************************************************************************)
Whitespace == {" ", "\n"}

RECURSIVE LStrip(_)
LStrip(s) ==
    IF s = <<>> THEN s
    ELSE IF Head(s) \in Whitespace THEN LStrip(Tail(s)) ELSE s

RECURSIVE RStrip(_)
RStrip(s) ==
    IF s = <<>> THEN s
    ELSE IF s[Len(s)] \in Whitespace THEN RStrip(SubSeq(s, 1, Len(s) - 1)) ELSE s

\* str.strip(): leading and trailing whitespace removed.
Strip(s) == RStrip(LStrip(s))

\* s[:n]
Prefix(s, n) == SubSeq(s, 1, IF Len(s) < n THEN Len(s) ELSE n)

\* All sequences over S of length at most n.
SeqsUpTo(S, n) == UNION {[1..k -> S] : k \in 0..n}

\* dict.get(key, default)
Get(d, key, default) == IF key \in DOMAIN d THEN d[key] ELSE default

Digits == {"0", "1", "2", "3", "4", "5", "6", "7", "8", "9"}

DigitVal(c) ==
    CASE c = "0" -> 0 [] c = "1" -> 1 [] c = "2" -> 2 [] c = "3" -> 3
      [] c = "4" -> 4 [] c = "5" -> 5 [] c = "6" -> 6 [] c = "7" -> 7
      [] c = "8" -> 8 [] c = "9" -> 9

RECURSIVE DigitsValue(_)
DigitsValue(s) ==
    IF s = <<>> THEN 0
    ELSE 10 * DigitsValue(SubSeq(s, 1, Len(s) - 1)) + DigitVal(s[Len(s)])

\* int(text): surrounding whitespace is ignored, then an optional sign and
\* at least one decimal digit; anything else is a ValueError.
PyInt(text) ==
    LET t == Strip(text)
        signed == t # <<>> /\ Head(t) \in {"-", "+"}
        body == IF signed THEN Tail(t) ELSE t
        ok == body # <<>> /\ \A i \in 1..Len(body) : body[i] \in Digits
    IN  IF ok
        THEN [ok |-> TRUE,
              val |-> IF signed /\ Head(t) = "-"
                      THEN 0 - DigitsValue(body) ELSE DigitsValue(body)]
        ELSE [ok |-> FALSE, val |-> 0]


(***************************************************************************)
(* Data the utilities handle.                                              *)
(***************************************************************************)
NA == <<"N", "/", "A">>

Timestamp1 ==
    <<"2", "0", "2", "4", "-", "0", "1", "-", "0", "1", "T",
      "0", "0", ":", "0", "0", ":", "0", "0", "Z">>

Timestamp2 ==
    <<"2", "0", "2", "4", "-", "0", "1", "-", "0", "1", "T",
      "2", "3", ":", "5", "9", ":", "0", "0", "Z">>

\* Article objects of the news endpoint; every key is optional.
Article1 ==
    [title |-> "X raises funding", description |-> "d", content |-> "c",
     url |-> "http://x", publishedAt |-> Timestamp1,
     source |-> [id |-> "reuters", name |-> "Reuters"]]

Article2 ==
    [url |-> "http://y", publishedAt |-> Timestamp2, source |-> [id |-> "bbc"]]

Article3 == [title |-> "Y falls", description |-> "d"]

ArticlePool == {Article1, Article2, Article3}

Companies == {"Acme"}

\* What the user may type at the lookback-days prompt.
AnswerChars == {" ", "-", "7", "x"}

AllAnswers == SeqsUpTo(AnswerChars, MaxAnswer)

SampleAnswers == {<<"7">>, <<"x">>, <<>>}

\* A Python value that is either a list or None.
PyList(items) == [kind |-> "list", items |-> items]

PyNone == [kind |-> "None", items |-> <<>>]

\* bool(value) of a list or None.
Truthy(v) == v.kind = "list" /\ v.items # <<>>

(***************************************************************************)
(* get_company_news: one GET, then the checks on the answer.               *)
(***************************************************************************)
\* The JSON bodies of the endpoint: "status" and "articles" may be absent,
\* and "articles" may be null.
JsonBodies ==
    [parses : {TRUE},
     status : {"ok", "error", "absent"},
     articles : {[kind |-> "absent", items |-> <<>>],
                 [kind |-> "null", items |-> <<>>]}
                \cup {[kind |-> "list", items |-> a] :
                        a \in SeqsUpTo(ArticlePool, MaxArticles)}]

BadBody ==
    [parses |-> FALSE, status |-> "absent",
     articles |-> [kind |-> "absent", items |-> <<>>]]

\* What requests.get may do: raise (no connection), or answer.
Responses ==
    {[kind |-> "transport", status_code |-> 0, body |-> BadBody]}
    \cup [kind : {"http"}, status_code : {200, 500},
          body : JsonBodies \cup {BadBody}]

\* data.get("articles", [])
ArticlesOf(body) ==
    CASE body.articles.kind = "absent" -> PyList(<<>>)
      [] body.articles.kind = "null" -> PyNone
      [] body.articles.kind = "list" -> PyList(body.articles.items)

NoNewsInFetchMsg(p) ==
    IF p = "console"
    THEN "No news found for the given query and date range."
    ELSE "No news found for the specified company and date range."

\* The outcome of get_company_news on the endpoint's answer r: the
\* exception that leaves the function ("none" when it returns), the value
\* returned and the lines written to the terminal.
GetCompanyNews(p, r) ==
    IF r.kind = "transport"
    THEN [exc |-> "ConnectionError", ret |-> PyNone, out |-> <<>>]
    ELSE IF r.status_code # 200
    THEN [exc |-> "none", ret |-> PyList(<<>>),
          out |-> <<"Error fetching news from NewsAPI.">>]
    ELSE IF ~r.body.parses
    THEN [exc |-> "JSONDecodeError", ret |-> PyNone, out |-> <<>>]
    ELSE IF r.body.status # "ok"
    THEN [exc |-> "none", ret |-> PyList(<<>>),
          out |-> <<"NewsAPI did not return a successful response.">>]
    ELSE LET articles == ArticlesOf(r.body)
         IN  [exc |-> "none", ret |-> articles,
              out |-> IF ~Truthy(articles)
                      THEN <<NoNewsInFetchMsg(p)>> ELSE <<>>]

(***************************************************************************)
(* The model call and the consumption of its stream.                       *)
(***************************************************************************)
\* A streamed fragment: without a choices attribute, with a text delta,
\* or with a delta whose content is None.
NoChoices == [kind |-> "nochoices", content |-> <<>>]

NoDelta == [kind |-> "nodelta", content |-> <<>>]

TextFrag(t) == [kind |-> "text", content |-> t]

Text1 == TextFrag(<<" ", "a">>)

Text2 == TextFrag(<<"b", " ">>)

GoodNews == <<"G", "o", "o", "d", " ", "n", "e", "w", "s", ".">>

\* The fragment streams the endpoint is taken to deliver.
Streams ==
    {<<>>, <<Text1>>, <<Text1, Text2>>, <<Text2, Text1>>,
     <<NoChoices, Text1>>, <<Text1, NoDelta>>, <<TextFrag(GoodNews)>>}

\* str(e) of the exceptions the endpoint's client raises.
ErrMsgs == {<<>>, <<"t", "i", "m", "e", "o", "u", "t">>}

\* str(e) of the TypeError of  str += None.
TypeErrorMsg == <<"can only concatenate str (not \"NoneType\") to str">>

\* What one model call may do: raise when the request is issued, or
\* deliver fragments and then end or raise.
Outcomes ==
    [raises : {"create"}, msg : ErrMsgs, frags : {<<>>}]
    \cup [raises : {"stream"}, msg : ErrMsgs, frags : {<<>>, <<Text1>>}]
    \cup [raises : {"none"}, msg : {<<>>}, frags : Streams]

\* The for loop over the stream: [text, exc], exc the message of the
\* exception that ended it (NoExc when none did).
NoExc == <<"no exception">>

RECURSIVE ConsumeFrom(_, _)
ConsumeFrom(frags, text) ==
    IF frags = <<>> THEN [text |-> text, exc |-> NoExc]
    ELSE LET token == Head(frags)
         IN  IF token.kind = "nochoices" THEN ConsumeFrom(Tail(frags), text)
             ELSE IF token.kind = "nodelta"
             THEN [text |-> text, exc |-> TypeErrorMsg]
             ELSE ConsumeFrom(Tail(frags), text \o token.content)

ErrPrefix == <<"Error during summarisation:", " ">>

\* The try block with an except clause that keeps the text received so far.
ResponseText_KeepPartial(o) ==
    IF o.raises = "create" THEN <<>> ELSE ConsumeFrom(o.frags, <<>>).text

\* The try block: response_text after the call o.
ResponseText(o) ==
    IF o.raises = "create" THEN ErrPrefix \o o.msg
    ELSE LET c == ConsumeFrom(o.frags, <<>>)
         IN  IF c.exc # NoExc THEN ErrPrefix \o c.exc
             ELSE IF o.raises = "stream" THEN ErrPrefix \o o.msg
             ELSE c.text

\* summarize_article: the summary of one article.
SummaryOf(o) == Strip(ResponseText(o))

SourceName(article) == 
    Get(Get(article, "source", <<>>), "name", "Unknown")

\* The record with the source read as a name: article.get("source", "Unknown").
MakeRecord_SourceAsName(article, summary) ==
    [title |-> Get(article, "title", "N/A"),
     publishedAt |-> Get(article, "publishedAt", NA),
     source |-> IF "source" \in DOMAIN article THEN "<dict>" ELSE "Unknown",
     summary |-> summary,
     url |-> Get(article, "url", "")]

\* The summary record of one article.
MakeRecord(article, summary) ==
    [title |-> Get(article, "title", "N/A"),
     publishedAt |-> Get(article, "publishedAt", NA),
     source |-> SourceName(article),
     summary |-> summary,
     url |-> Get(article, "url", "")]


(***************************************************************************)
(* The report sinks.                                                       *)
(***************************************************************************)
\* display_news: the cells handed to table.add_row for one record.
ConsoleRow(news) ==
    <<news["publishedAt"], news["source"], news["title"],
      news["summary"] \o <<"\n", "\n", "[link=", news["url"], "]Read More[/link]">> >>

\* generate_pdf: the cells of one data row.
PdfRow(item) ==
    <<Prefix(Get(item, "publishedAt", NA), 10),
      Get(item, "source", "Unknown"),
      Get(item, "title", "N/A"),
      Get(item, "summary", NA),
      Get(item, "url", "")>>

\* The <tr> with publishedAt written in full, the slice forgotten.
HtmlRow_FullDate(item) ==
    <<Get(item, "publishedAt", NA),
      Get(item, "source", "Unknown"),
      Get(item, "title", "N/A"),
      Get(item, "summary", NA),
      <<"<a href='", Get(item, "url", ""), "'>Link</a>">> >>

\* generate_html: the cells of one <tr>.
HtmlRow(item) ==
    <<Prefix(Get(item, "publishedAt", NA), 10),
      Get(item, "source", "Unknown"),
      Get(item, "title", "N/A"),
      Get(item, "summary", NA),
      <<"<a href='", Get(item, "url", ""), "'>Link</a>">> >>

ConsoleRows(data) == [i \in 1..Len(data) |-> ConsoleRow(data[i])]

PdfRows(data) == [i \in 1..Len(data) |-> PdfRow(data[i])]

HtmlRows(data) == [i \in 1..Len(data) |-> HtmlRow(data[i])]

\* A sink's output: nothing yet, or the rows it emitted.
NoOutput == [written |-> FALSE, rows |-> <<>>]

Output(rows) == [written |-> TRUE, rows |-> rows]

\* What generate_pdf may do: finish, fail to load the font (the
\* RuntimeError "PDF font error"), or fail while writing the file.
PdfOutcomes == {"ok", "font", "output"}

\* What generate_html may do: finish, or fail to open the file.
HtmlOutcomes == {"ok", "open"}

(***************************************************************************)
(* State of a run of deepSeek.py (prog = "console") or newstopdf.py        *)
(* (prog = "pdf").                                                         *)
(***************************************************************************)
VARIABLES
    prog,           \* the utility that runs
    pc,             \* where the run is
    typed,          \* what the user types at the prompts
    company, days,  \* main's locals
    fetchCalls,     \* the (company, days) of each get_company_news call
    response,       \* what the news endpoint did
    news_articles,  \* the value get_company_news returned
    raised,         \* the exception that ended the run, "none" if none
    calls,          \* the articles model calls were issued for, in order
    stream,         \* what the latest model call did
    failed,         \* per summarised article: did its model call raise
    summaries,      \* news_summaries / news_data
    log,            \* the lines written to the terminal
    sinks,          \* the sink invocations, in order, with their arguments
    consoleOut, pdfOut, htmlOut,  \* what each sink emitted
    user_prompt, size,            \* image-gen.py: main's locals
    genCalls,       \* image-gen.py: the arguments of each images.generate call
    b64_data,       \* image-gen.py: what generate_image returned
    disk            \* image-gen.py: the file generated_image.png

vars ==
    <<prog, pc, typed, company, days, fetchCalls, response, news_articles,
      raised, calls, stream, failed, summaries, log, sinks,
      consoleOut, pdfOut, htmlOut, user_prompt, size, genCalls, b64_data, disk>>

newsVars ==
    <<company, days, fetchCalls, response, news_articles, calls, stream, failed>>

imageVars == <<user_prompt, size, genCalls, b64_data, disk>>

DefaultDays == 10

NoResponse == [kind |-> "none", status_code |-> 0, body |-> BadBody]

NoStream == [raises |-> "none", msg |-> <<>>, frags |-> <<>>]

InvalidDaysMsg == "Invalid number of days. Using default of 10 days."

\* The except clause without its assignment of the default.
ParseDays_NoDefault(answer) ==
    LET r == PyInt(answer)
    IN  IF r.ok THEN [days |-> r.val, out |-> <<>>]
        ELSE [days |-> 0, out |-> <<InvalidDaysMsg>>]

\* The try/except around int(input(...)).
ParseDays(answer) ==
    LET r == PyInt(answer)
    IN  IF r.ok THEN [days |-> r.val, out |-> <<>>]
        ELSE [days |-> DefaultDays, out |-> <<InvalidDaysMsg>>]

NoFile == [exists |-> FALSE, bytes |-> 0]

NoData == [kind |-> "None", text |-> <<>>]

\* The image utility's state when another utility runs.
ImageIdle ==
    /\ user_prompt = <<>> /\ size = <<0, 0>> /\ genCalls = <<>>
    /\ b64_data = NoData /\ disk = NoFile

InitWith(answers) ==
    /\ prog \in {"console", "pdf"}
    /\ pc = "input"
    /\ typed \in [company : Companies, days : answers]
    /\ company = "" /\ days = 0
    /\ fetchCalls = <<>>
    /\ response = NoResponse
    /\ news_articles = PyList(<<>>)
    /\ raised = "none"
    /\ calls = <<>>
    /\ stream = NoStream
    /\ failed = <<>>
    /\ summaries = <<>>
    /\ log = <<>>
    /\ sinks = <<>>
    /\ consoleOut = NoOutput /\ pdfOut = NoOutput /\ htmlOut = NoOutput
    /\ ImageIdle

Init == InitWith(SampleAnswers)

\* The two input() calls and the parse of the day count.
ReadInput ==
    /\ pc = "input"
    /\ company' = typed.company
    /\ days' = ParseDays(typed.days).days
    /\ log' = log \o ParseDays(typed.days).out
    /\ pc' = "fetch"
    /\ UNCHANGED <<prog, typed, fetchCalls, response, news_articles, raised,
                   calls, stream, failed, summaries, sinks,
                   consoleOut, pdfOut, htmlOut, imageVars>>

NoNewsMsg(p) ==
    IF p = "console"
    THEN "No news found for the specified company and date range."
    ELSE "No news found. Exiting."

\* main after get_company_news returned the value ret: the "if not articles"
\* test, as [out, pc].
AfterFetch(p, ret) ==
    IF ~Truthy(ret)
    THEN [out |-> <<NoNewsMsg(p)>>, pc |-> "done"]
    ELSE [out |-> <<"Summarising...">>, pc |-> "summarise"]

\* The call of get_company_news and main's test of what it returned.
FetchNews ==
    /\ pc = "fetch"
    /\ \E r \in Responses :
         LET g == GetCompanyNews(prog, r)
         IN  /\ response' = r
             /\ fetchCalls' = Append(fetchCalls, [company |-> company, days |-> days])
             /\ IF g.exc # "none"
                THEN /\ raised' = g.exc
                     /\ pc' = "crashed"
                     /\ log' = log \o <<"Fetching news articles...">> \o g.out
                     /\ UNCHANGED news_articles
                ELSE /\ news_articles' = g.ret
                     /\ log' = log \o <<"Fetching news articles...">> \o g.out
                                   \o AfterFetch(prog, g.ret).out
                     /\ pc' = AfterFetch(prog, g.ret).pc
                     /\ UNCHANGED raised
    /\ UNCHANGED <<prog, typed, company, days, calls, stream, failed,
                   summaries, sinks, consoleOut, pdfOut, htmlOut, imageVars>>

\* Whether the try block of the model call o reached its except clause.
Raised(o) == o.raises # "none" \/ ConsumeFrom(o.frags, <<>>).exc # NoExc

\* main after the record of article i was appended: the next article, or
\* the sinks.
AfterRecord(i, n) == IF i < n THEN "summarise" ELSE "render"

\* One iteration of the summarising loop: the model call for the next
\* article and the append of its record.
Summarise ==
    /\ pc = "summarise"
    /\ LET i == Len(summaries) + 1
           article == news_articles.items[i]
       IN  \E o \in Outcomes :
             /\ calls' = Append(calls, i)
             /\ stream' = o
             /\ failed' = Append(failed, Raised(o))
             /\ summaries' = Append(summaries, MakeRecord(article, SummaryOf(o)))
             /\ pc' = AfterRecord(i, Len(news_articles.items))
    /\ UNCHANGED <<prog, typed, company, days, fetchCalls, response,
                   news_articles, raised, log, sinks,
                   consoleOut, pdfOut, htmlOut, imageVars>>

SinkCall(sink, name, data) == [sink |-> sink, company |-> name, data |-> data]

\* deepSeek.py: display_news(news_summaries).
DisplayNews ==
    /\ prog = "console" /\ pc = "render"
    /\ sinks' = Append(sinks, SinkCall("console", "", summaries))
    /\ consoleOut' = Output(ConsoleRows(summaries))
    /\ pc' = "done"
    /\ UNCHANGED <<prog, typed, company, days, fetchCalls, response,
                   news_articles, raised, calls, stream, failed, summaries,
                   log, pdfOut, htmlOut, imageVars>>

\* The fallback in a finally clause instead of the except clause.
AfterPdf_Finally(o) == "fallback"

\* main's except clause after generate_pdf ended with outcome o.
AfterPdf(o) == IF o = "ok" THEN "done" ELSE "fallback"

\* newstopdf.py: the try of generate_pdf(company, news_data).
GeneratePdf ==
    /\ prog = "pdf" /\ pc = "render"
    /\ \E o \in PdfOutcomes :
         /\ sinks' = Append(sinks, SinkCall("pdf", company, summaries))
         /\ pdfOut' = IF o = "ok" THEN Output(PdfRows(summaries)) ELSE pdfOut
         /\ log' = log \o <<"Generating PDF with investment insights...">>
                       \o (CASE o = "ok" -> <<"PDF generated">>
                             [] o = "font" ->
                                  <<"PDF generation failed: PDF font error",
                                    "Falling back to HTML output...">>
                             [] o = "output" ->
                                  <<"PDF generation failed",
                                    "Falling back to HTML output...">>)
         /\ pc' = AfterPdf(o)
    /\ UNCHANGED <<prog, typed, company, days, fetchCalls, response,
                   news_articles, raised, calls, stream, failed, summaries,
                   consoleOut, htmlOut, imageVars>>

\* newstopdf.py: generate_html(company, news_data) in the except clause.
GenerateHtml ==
    /\ prog = "pdf" /\ pc = "fallback"
    /\ \E o \in HtmlOutcomes :
         /\ sinks' = Append(sinks, SinkCall("html", company, summaries))
         /\ IF o = "ok"
            THEN /\ htmlOut' = Output(HtmlRows(summaries))
                 /\ log' = Append(log, "HTML generated")
                 /\ pc' = "done"
                 /\ UNCHANGED raised
            ELSE /\ raised' = "OSError"
                 /\ pc' = "crashed"
                 /\ UNCHANGED <<htmlOut, log>>
    /\ UNCHANGED <<prog, typed, company, days, fetchCalls, response,
                   news_articles, calls, stream, failed, summaries,
                   consoleOut, pdfOut, imageVars>>

Next ==
    \/ ReadInput
    \/ FetchNews
    \/ Summarise
    \/ DisplayNews
    \/ GeneratePdf
    \/ GenerateHtml

Spec == Init /\ [][Next]_vars


(***************************************************************************)
(* The three sinks applied to one sequence of summary records.             *)
(***************************************************************************)
SampleSummaries == {<<"a">>, ErrPrefix \o <<"t">>}

\* Summary records as the summariser builds them.
SampleRecords ==
    {MakeRecord(a, t) : a \in ArticlePool, t \in SampleSummaries}

RenderInit ==
    /\ prog = "render"
    /\ pc = "render"
    /\ typed = [company |-> "Acme", days |-> <<>>]
    /\ company = "Acme" /\ days = 0
    /\ fetchCalls = <<>>
    /\ response = NoResponse
    /\ news_articles = PyList(<<>>)
    /\ raised = "none"
    /\ calls = <<>>
    /\ stream = NoStream
    /\ failed = <<>>
    /\ summaries \in SeqsUpTo(SampleRecords, MaxRecords)
    /\ log = <<>>
    /\ sinks = <<>>
    /\ consoleOut = NoOutput /\ pdfOut = NoOutput /\ htmlOut = NoOutput
    /\ ImageIdle

\* The sink has been run on the records.
Rendered(sink) == \E k \in 1..Len(sinks) : sinks[k].sink = sink

\* display_news(summaries)
RenderConsole ==
    /\ prog = "render" /\ ~Rendered("console")
    /\ consoleOut' = Output(ConsoleRows(summaries))
    /\ sinks' = Append(sinks, SinkCall("console", "", summaries))
    /\ UNCHANGED <<prog, pc, typed, raised, summaries, log, pdfOut, htmlOut,
                   newsVars, imageVars>>

\* generate_pdf(company, summaries)
RenderPdf ==
    /\ prog = "render" /\ ~Rendered("pdf")
    /\ \E o \in PdfOutcomes :
         pdfOut' = IF o = "ok" THEN Output(PdfRows(summaries)) ELSE pdfOut
    /\ sinks' = Append(sinks, SinkCall("pdf", company, summaries))
    /\ UNCHANGED <<prog, pc, typed, raised, summaries, log, consoleOut, htmlOut,
                   newsVars, imageVars>>

\* generate_html(company, summaries)
RenderHtml ==
    /\ prog = "render" /\ ~Rendered("html")
    /\ \E o \in HtmlOutcomes :
         htmlOut' = IF o = "ok" THEN Output(HtmlRows(summaries)) ELSE htmlOut
    /\ sinks' = Append(sinks, SinkCall("html", company, summaries))
    /\ UNCHANGED <<prog, pc, typed, raised, summaries, log, consoleOut, pdfOut,
                   newsVars, imageVars>>

RenderNext ==
    \/ RenderConsole
    \/ RenderPdf
    \/ RenderHtml

RenderSpec == RenderInit /\ [][RenderNext]_vars

(***************************************************************************)
(* The run of a news utility up to the return of get_company_news, for     *)
(* every answer to the lookback-days prompt.                               *)
(***************************************************************************)
InputInit == InitWith(AllAnswers)

InputNext ==
    \/ ReadInput
    \/ FetchNews

InputSpec == InputInit /\ [][InputNext]_vars


(***************************************************************************)
(* image-gen.py                                                            *)
(***************************************************************************)
ChoiceChars == {" ", "1", "2", "3", "x"}

Prompts == {<<"c", "a", "t">>, <<" ", "c", "a", "t", " ">>}

\* Characters of a base64 payload: one of the base64 alphabet and one
\* outside it.
PayloadChars == {"A", "!"}

Payloads == SeqsUpTo(PayloadChars, MaxPayload)

InvalidChoiceMsg == "Invalid choice. Defaulting to 4:3 ratio (1024x768)."

\* choose_image_ratio without the strip() of the line.
ChooseImageRatio_NoStrip(line) ==
    IF line = <<"1">> THEN [size |-> <<1024, 576>>, out |-> <<>>]
    ELSE IF line = <<"2">> THEN [size |-> <<1024, 768>>, out |-> <<>>]
    ELSE IF line = <<"3">> THEN [size |-> <<1024, 1024>>, out |-> <<>>]
    ELSE [size |-> <<1024, 768>>, out |-> <<InvalidChoiceMsg>>]

\* choose_image_ratio on the line the user typed: the (width, height)
\* returned and the warning written.
ChooseImageRatio(line) ==
    LET choice == Strip(line)
    IN  IF choice = <<"1">> THEN [size |-> <<1024, 576>>, out |-> <<>>]
        ELSE IF choice = <<"2">> THEN [size |-> <<1024, 768>>, out |-> <<>>]
        ELSE IF choice = <<"3">> THEN [size |-> <<1024, 1024>>, out |-> <<>>]
        ELSE [size |-> <<1024, 768>>, out |-> <<InvalidChoiceMsg>>]

\* What client.images.generate may do: raise, answer without data, or
\* answer with one entry whose b64_json is a payload or None.
GenOutcomes ==
    {[kind |-> "raise", text |-> <<>>], [kind |-> "nodata", text |-> <<>>],
     [kind |-> "null", text |-> <<>>]}
    \cup [kind : {"payload"}, text : Payloads]

StrData(text) == [kind |-> "str", text |-> text]

\* generate_image: the value returned and the lines written.
GenerateImageResult(o) ==
    CASE o.kind = "raise" ->
           [ret |-> NoData, out |-> <<"Error during image generation:">>]
      [] o.kind = "nodata" ->
           [ret |-> NoData, out |-> <<"No image data received.">>]
      [] o.kind = "null" -> [ret |-> NoData, out |-> <<>>]
      [] o.kind = "payload" -> [ret |-> StrData(o.text), out |-> <<>>]

\* bool(b64_data)
TruthyData(d) == d.kind = "str" /\ d.text # <<>>

\* The characters of the base64 alphabet in text, the others discarded.
B64Chars(text) == SelectSeq(text, LAMBDA c : c = "A")

\* base64.b64decode(text): the number of bytes decoded, or an error when
\* the data characters do not fill whole groups of four.
B64Decode(text) ==
    LET n == Len(B64Chars(text))
    IN  IF n % 4 # 0 THEN [ok |-> FALSE, bytes |-> 0]
        ELSE [ok |-> TRUE, bytes |-> (3 * n) \div 4]

\* What the file system may do in save_image: take the whole file, refuse
\* to open it, or fail while it is written.
SaveOutcomes == {"ok", "open", "write"}

SavedMsg == "Image saved as: generated_image.png"

SaveErrorMsg == "Error saving image:"

FailedMsg == "Failed to generate image."

\* save_image(b64_data) on the file system's behaviour o, the write failing
\* after k of the bytes: the file left on disk and the lines written.
SaveImageResult(data, o, k, file) ==
    LET d == B64Decode(data.text)
    IN  IF ~d.ok THEN [disk |-> file, out |-> <<SaveErrorMsg>>]
        ELSE IF o = "open" THEN [disk |-> file, out |-> <<SaveErrorMsg>>]
        ELSE IF o = "write"
        THEN [disk |-> [exists |-> TRUE, bytes |-> k], out |-> <<SaveErrorMsg>>]
        ELSE [disk |-> [exists |-> TRUE, bytes |-> d.bytes], out |-> <<SavedMsg>>]

ImageInit ==
    /\ prog = "image"
    /\ pc = "input"
    /\ typed \in [prompt : Prompts, choice : SeqsUpTo(ChoiceChars, MaxChoice)]
    /\ company = "" /\ days = 0
    /\ fetchCalls = <<>>
    /\ response = NoResponse
    /\ news_articles = PyList(<<>>)
    /\ raised = "none"
    /\ calls = <<>>
    /\ stream = NoStream
    /\ failed = <<>>
    /\ summaries = <<>>
    /\ log = <<>>
    /\ sinks = <<>>
    /\ consoleOut = NoOutput /\ pdfOut = NoOutput /\ htmlOut = NoOutput
    /\ ImageIdle

\* main: the prompt is read and trimmed.
ReadPrompt ==
    /\ prog = "image" /\ pc = "input"
    /\ user_prompt' = Strip(typed.prompt)
    /\ log' = Append(log, "Using prompt:")
    /\ pc' = "ratio"
    /\ UNCHANGED <<prog, typed, raised, summaries, sinks, consoleOut, pdfOut,
                   htmlOut, newsVars, size, genCalls, b64_data, disk>>

\* width, height = choose_image_ratio()
ChooseRatio ==
    /\ prog = "image" /\ pc = "ratio"
    /\ size' = ChooseImageRatio(typed.choice).size
    /\ log' = log \o ChooseImageRatio(typed.choice).out
    /\ pc' = "generate"
    /\ UNCHANGED <<prog, typed, raised, summaries, sinks, consoleOut, pdfOut,
                   htmlOut, newsVars, user_prompt, genCalls, b64_data, disk>>

\* main after generate_image returned ret: the "if b64_data" test.
AfterGenerate(ret) ==
    IF TruthyData(ret) THEN [out |-> <<>>, pc |-> "save"]
    ELSE [out |-> <<FailedMsg>>, pc |-> "done"]

\* b64_data = generate_image(user_prompt, width, height) and main's test
\* of it.
GenerateImage ==
    /\ prog = "image" /\ pc = "generate"
    /\ \E o \in GenOutcomes :
         LET g == GenerateImageResult(o)
         IN  /\ genCalls' = Append(genCalls,
                   [prompt |-> user_prompt, width |-> size[1], height |-> size[2],
                    steps |-> 4, n |-> 1, seed |-> 0])
             /\ b64_data' = g.ret
             /\ log' = log \o g.out \o AfterGenerate(g.ret).out
             /\ pc' = AfterGenerate(g.ret).pc
    /\ UNCHANGED <<prog, typed, raised, summaries, sinks, consoleOut, pdfOut,
                   htmlOut, newsVars, user_prompt, size, disk>>

\* save_image(b64_data)
SaveImage ==
    /\ prog = "image" /\ pc = "save"
    /\ \E o \in SaveOutcomes :
         \E k \in 0..B64Decode(b64_data.text).bytes :
           LET r == SaveImageResult(b64_data, o, k, disk)
           IN  /\ IF o = "write" THEN k < B64Decode(b64_data.text).bytes ELSE k = 0
               /\ disk' = r.disk
               /\ log' = log \o r.out
    /\ pc' = "done"
    /\ UNCHANGED <<prog, typed, raised, summaries, sinks, consoleOut, pdfOut,
                   htmlOut, newsVars, user_prompt, size, genCalls, b64_data>>

ImageNext ==
    \/ ReadPrompt
    \/ ChooseRatio
    \/ GenerateImage
    \/ SaveImage

ImageSpec == ImageInit /\ [][ImageNext]_vars


(***************************************************************************)
(* Properties of the news utilities (Spec).                                *)
(***************************************************************************)
\* The summarising loop has run to its end.
SummarisingDone == pc \in {"render", "fallback"} \/ sinks # <<>>

Marker == "Error during summarisation:"

ContainsMarker(text) == \E k \in 1..Len(text) : text[k] = Marker

\* The value of key k of article a, d when a has no such key.
FieldOf(a, k, d) == IF k \in DOMAIN a THEN a[k] ELSE d

SourceNameOf(a) ==
    IF "source" \in DOMAIN a /\ "name" \in DOMAIN a["source"]
    THEN a["source"]["name"] ELSE "Unknown"

\* Record r carries the title, publishedAt, source name and url of article a.
Carries(r, a) ==
    /\ r.title = FieldOf(a, "title", "N/A")
    /\ r.publishedAt = FieldOf(a, "publishedAt", NA)
    /\ r.source = SourceNameOf(a)
    /\ r.url = FieldOf(a, "url", "")

\* C1: for a non-empty article list the summariser produces exactly one
\* record per article, the i-th record carrying the title, publishedAt,
\* source name and url of the i-th article, whatever calls fail.
C1_OneRecordPerArticle ==
    /\ Len(summaries) <= Len(news_articles.items)
    /\ \A i \in 1..Len(summaries) : Carries(summaries[i], news_articles.items[i])
    /\ SummarisingDone => Len(summaries) = Len(news_articles.items)

C1_Witness ==
    /\ pc = "done"
    /\ Len(summaries) = 2
    /\ news_articles.items = <<Article2, Article1>>
    /\ failed = <<TRUE, FALSE>>

C2_Inv ==
    /\ Len(failed) = Len(summaries) /\ Len(calls) = Len(summaries)
    /\ \A i \in 1..Len(summaries) :
         /\ calls[i] = i
         /\ failed[i] =>
              /\ summaries[i].summary # <<>>
              /\ ContainsMarker(summaries[i].summary)
         /\ Carries(summaries[i], news_articles.items[i])
    /\ SummarisingDone => Len(calls) = Len(news_articles.items)
    /\ Len(summaries) > 0 =>
         failed[Len(failed)] =
            (stream.raises # "none"
               \/ \E k \in 1..Len(stream.frags) : stream.frags[k].kind = "nodelta")

\* A step leaves every record written so far as it is.
C2_Step ==
    /\ Len(summaries') >= Len(summaries)
    /\ \A j \in 1..Len(summaries) : summaries'[j] = summaries[j]

\* C2: if the model call for article i fails, record i's summary is a
\* non-empty string containing the marker "Error during summarisation:",
\* the batch goes on (a model call is made for every later article), and
\* the records of the other articles are what they are without the failure.
C2_FailureIsInline == []C2_Inv /\ [][C2_Step]_vars

C2_Witness ==
    /\ pc = "done"
    /\ failed = <<TRUE, FALSE>>
    /\ calls = <<1, 2>>
    /\ summaries[1].summary = <<Marker>>
    /\ ~ContainsMarker(summaries[2].summary)


\* get_company_news has been called and has returned or raised.
Fetched == fetchCalls # <<>>

\* The endpoint answered, and its body has no articles to give.
NoArticlesIn(r) ==
    r.body.parses /\ r.body.status = "ok"
       /\ (r.body.articles.kind \in {"absent", "null"} \/ r.body.articles.items = <<>>)

\* C3: get_company_news returns an empty sequence, never a null value, when
\* the HTTP status is not 200, when the body's "status" is not "ok", and
\* when the body carries no articles (array empty, absent or null).
C3_EmptyNeverNull ==
    (/\ Fetched /\ raised = "none" /\ response.kind = "http"
     /\ \/ response.status_code # 200
        \/ response.body.parses /\ response.body.status # "ok"
        \/ NoArticlesIn(response))
    => news_articles = PyList(<<>>)

\* The news fetch failed: no connection, a status other than 200, a body
\* that is not JSON or not "ok", or no article.
FetchFailed ==
    \/ response.kind = "transport"
    \/ response.kind = "http"
         /\ \/ response.status_code # 200
            \/ ~response.body.parses
            \/ response.body.status # "ok"
            \/ NoArticlesIn(response)

InLog(line) == \E k \in 1..Len(log) : log[k] = line

\* C4: on every failure of the news fetch no exception leaves
\* get_company_news; the caller sees an empty list, reports that no news
\* was found, and the run ends with no model call and no sink.
C4_FetchFailureIsEmptyList ==
    (Fetched /\ FetchFailed) =>
        /\ raised = "none"
        /\ news_articles = PyList(<<>>)
        /\ InLog(NoNewsMsg(prog))
        /\ pc = "done"
        /\ calls = <<>> /\ sinks = <<>>

\* The text deltas of a stream, concatenated in arrival order.
RECURSIVE Deltas(_)
Deltas(frags) ==
    IF frags = <<>> THEN <<>>
    ELSE (IF Head(frags).kind = "text" THEN Head(frags).content ELSE <<>>)
            \o Deltas(Tail(frags))

\* C7: when the model call completes without raising, the summary is the
\* concatenation, in arrival order, of the text deltas of all fragments,
\* stripped, for every stream the endpoint delivers (fragments with no
\* text delta or without choices included).
C7_SummaryIsConcatenation ==
    (Len(summaries) > 0 /\ stream.raises = "none") =>
        summaries[Len(summaries)].summary = Strip(Deltas(stream.frags))

\* The sink invocations of kind k.
SinkCallsOf(k) == SelectSeq(sinks, LAMBDA c : c.sink = k)

\* C10: in the PDF/HTML utility, after a non-empty batch is summarised,
\* generate_pdf is attempted exactly once and only when every record
\* exists; generate_html runs if and only if generate_pdf raised (the
\* "PDF font error" included), after it, and with the same company name
\* and the same records.
C10_PdfThenHtmlFallback ==
    prog = "pdf" =>
        /\ Len(SinkCallsOf("pdf")) <= 1
        /\ SummarisingDone /\ pc # "render" => Len(SinkCallsOf("pdf")) = 1
        /\ \A k \in 1..Len(sinks) :
             /\ Len(summaries) = Len(news_articles.items)
             /\ Len(summaries) > 0
             /\ sinks[k].data = summaries
             /\ sinks[k].company = typed.company
        /\ Len(sinks) >= 1 => sinks[1].sink = "pdf"
        /\ Len(sinks) >= 2 => (Len(sinks) = 2 /\ sinks[2].sink = "html"
                                 /\ sinks[2].data = sinks[1].data
                                 /\ sinks[2].company = sinks[1].company)
        /\ pc \in {"done", "crashed"} /\ sinks # <<>> =>
             (Len(SinkCallsOf("html")) = 1 <=> ~pdfOut.written)
        /\ InLog("PDF generation failed: PDF font error")
             /\ pc \in {"done", "crashed"} => Len(SinkCallsOf("html")) = 1
        /\ Len(SinkCallsOf("html")) = 1 => ~pdfOut.written

C10_Witness ==
    /\ prog = "pdf" /\ pc = "done"
    /\ Len(summaries) = 2
    /\ InLog("PDF generation failed: PDF font error")
    /\ htmlOut.written
    /\ Len(sinks) = 2

(***************************************************************************)
(* Properties of the input phase (InputSpec).                              *)
(***************************************************************************)
\* text is optional whitespace, an optional sign, decimal digits from
\* position s to position e, and optional whitespace.
NumeralAt(text, s, e) ==
    /\ \A k \in s..e : text[k] \in Digits
    /\ \A k \in (e + 1)..Len(text) : text[k] \in Whitespace
    /\ \A k \in 1..(s - 1) :
         \/ text[k] \in Whitespace
         \/ k = s - 1 /\ text[k] \in {"-", "+"}

Numeric(text) ==
    \E s \in 1..Len(text) : \E e \in s..Len(text) : NumeralAt(text, s, e)

NumberIn(text) ==
    LET s == CHOOSE s \in 1..Len(text) : \E e \in s..Len(text) : NumeralAt(text, s, e)
        e == CHOOSE e \in s..Len(text) : NumeralAt(text, s, e)
        n == DigitsValue(SubSeq(text, s, e))
    IN  IF s > 1 /\ text[s - 1] = "-" THEN 0 - n ELSE n

\* C8: a non-numeric answer to the lookback-days prompt gives a lookback of
\* exactly 10 days with a notice, raises nothing, and the fetch is called
\* with days = 10; a numeric answer is passed to the fetch unchanged.
C8_InvalidDaysDefaultsToTen ==
    pc # "input" =>
        /\ ~Numeric(typed.days) => (days = 10 /\ InLog(InvalidDaysMsg))
        /\ Numeric(typed.days) => (days = NumberIn(typed.days) /\ ~InLog(InvalidDaysMsg))
        /\ pc = "fetch" => (raised = "none" /\ fetchCalls = <<>>)
        /\ pc # "fetch" =>
             fetchCalls = <<[company |-> typed.company, days |-> days]>>

C8_Witness ==
    /\ Fetched
    /\ typed.days = <<"7", "x">>
    /\ fetchCalls[1].days = 10
    /\ InLog(InvalidDaysMsg)


(***************************************************************************)
(* Properties of the sinks (RenderSpec).                                   *)
(***************************************************************************)
\* The sinks that have written their output.
Written == {out \in {consoleOut, pdfOut, htmlOut} : out.written}

\* The (date, source, title) of a row.
Key(row) == <<row[1], row[2], row[3]>>

\* C6 as stated: the sinks emit one row per record, in order, and the
\* (date, source, title) of row i is the same in all three.
C6_SameKeysInAllSinks ==
    \A out1 \in Written : \A out2 \in Written :
        /\ Len(out1.rows) = Len(summaries)
        /\ \A i \in 1..Len(summaries) : Key(out1.rows[i]) = Key(out2.rows[i])

\* The first n characters of text, position by position.
FirstChars(text, n) ==
    [k \in 1..(IF Len(text) < n THEN Len(text) ELSE n) |-> text[k]]

\* C6, amended: each sink emits one row per record, in order; row i has
\* the source and title of record i in all three; its date is the first
\* 10 characters of publishedAt in the PDF and the HTML, and publishedAt
\* in full in the console table.
C6_SameRowsDateCutInFiles ==
    /\ \A out \in Written :
         /\ Len(out.rows) = Len(summaries)
         /\ \A i \in 1..Len(summaries) :
              /\ out.rows[i][2] = summaries[i].source
              /\ out.rows[i][3] = summaries[i].title
    /\ \A i \in 1..Len(summaries) :
         /\ consoleOut.written => consoleOut.rows[i][1] = summaries[i].publishedAt
         /\ pdfOut.written =>
              pdfOut.rows[i][1] = FirstChars(summaries[i].publishedAt, 10)
         /\ htmlOut.written =>
              htmlOut.rows[i][1] = FirstChars(summaries[i].publishedAt, 10)

C6_Witness ==
    /\ consoleOut.written /\ pdfOut.written /\ htmlOut.written
    /\ Len(summaries) = 2
    /\ summaries[1].publishedAt = Timestamp2
    /\ summaries[2].publishedAt = NA
    /\ pdfOut.rows[1][1] # consoleOut.rows[1][1]

(***************************************************************************)
(* Properties of the image utility (ImageSpec).                            *)
(***************************************************************************)
\* C5: whenever image generation or saving fails (no data, an error of the
\* call, a payload that does not decode, a write that fails) a failure
\* message is written and no image file is on disk at the end of the run;
\* a file is there only after a decode and a write that both succeeded.
C5_NoFileOnFailure ==
    pc = "done" =>
        /\ disk.exists <=> InLog(SavedMsg)
        /\ ~InLog(SavedMsg) => (InLog(FailedMsg) \/ InLog(SaveErrorMsg))

\* line is the character c with whitespace around it.
IsChoice(line, c) ==
    \E k \in 1..Len(line) :
        /\ line[k] = c
        /\ \A j \in 1..Len(line) : j # k => line[j] \in Whitespace

\* C9: choose_image_ratio maps "1" to (1024, 576), "2" to (1024, 768),
\* "3" to (1024, 1024) and every other selection, surrounding whitespace
\* trimmed, to (1024, 768) with a warning; the pair it returns is the one
\* passed to the single image-generation call.
C9_RatioPresets ==
    pc \notin {"input", "ratio"} =>
        /\ IsChoice(typed.choice, "1") => (size = <<1024, 576>> /\ ~InLog(InvalidChoiceMsg))
        /\ IsChoice(typed.choice, "2") => (size = <<1024, 768>> /\ ~InLog(InvalidChoiceMsg))
        /\ IsChoice(typed.choice, "3") => (size = <<1024, 1024>> /\ ~InLog(InvalidChoiceMsg))
        /\ (\A c \in {"1", "2", "3"} : ~IsChoice(typed.choice, c)) =>
             (size = <<1024, 768>> /\ InLog(InvalidChoiceMsg))
        /\ Len(genCalls) <= 1
        /\ pc # "generate" =>
             /\ Len(genCalls) = 1
             /\ genCalls[1].width = size[1] /\ genCalls[1].height = size[2]

C9_Witness ==
    /\ pc = "done"
    /\ typed.choice = <<" ", "3">>
    /\ Len(genCalls) = 1
    /\ genCalls[1].width = 1024 /\ genCalls[1].height = 1024

=============================================================================
